---- MODULE Spec2Model ----
(***************************************************************************)
(* Model of src/server.js: the API-key check (requireKey), the MCP session *)
(* maps (sessions, sessionTimers), touchSession and its TTL callback, and  *)
(* the POST / GET / DELETE handlers of /mcp with their suspension points.  *)
(***************************************************************************)
EXTENDS Integers, Sequences, FiniteSets, Bags, TLC

(* ------------------------------ bounds --------------------------------- *)
\* transports (hence sessions) ever constructed in one run
MaxTransports == 2
\* requests on /mcp that are in flight at once
MaxInFlight == 2
\* clock ticks of one run
MaxTicks == 3
\* clock ticks per TTL window
TicksPerTTL == 2
\* transport.close() invocations counted per transport (saturating)
MaxCloseCalls == 2
\* OAuth2 code exchanges that are pending at once
MaxExchanges == 2
\* token sets the identity provider issues in one run
MaxTokenSets == 2
\* GET /tasks requests that are past the check of savedTokens at once
MaxTasksReqs == 1
\* task lists of one account
MaxLists == 3
\* tasks of a long task list
LongList == 13

(* ---------------------------- constants -------------------------------- *)
\* server.js:162  const TTL_MS = 10 * 60 * 1000
TTL_MS == 10 * 60 * 1000
TickMs == TTL_MS \div TicksPerTTL

\* JS null / undefined, for strings (strings are sequences of characters)
Null == <<"null">>
\* no transport / no session id (falsy)
NoTransport == 0
NoSid == 0
\* request header Mcp-Session-Id: absent, or an id this server never issued
NoHeader == 0
Bogus == -1

\* server.js:27  let savedTokens = null
NoTokens == 0

None == [kind |-> "none"]

VARIABLES
    API_KEY,        \* server.js:15  process.env.MCP_API_KEY
    mcpInitPromise, \* server.js:159 "unset" | "pending" | "resolved"
    initRuns,       \* times the body of initMcpServer's promise was started
    sessions,       \* server.js:160 Map sessionId -> transport
    sessionTimers,  \* server.js:161 Map sessionId -> timeout handle
    armed,          \* the runtime's pending setTimeout timers
    transportSid,   \* transport.sessionId of every constructed transport
    closeCalls,     \* transport.close() invocations per transport
    nTransports,    \* transports constructed so far (they are numbered)
    nextSid,        \* randomUUID(): the next fresh session id
    inflight,       \* bag of requests suspended at an await or still connected
    now,            \* the clock, in ms
    lastTouch,      \* history: time of the latest touchSession of every
                    \* session id that has a pending timer
    released,       \* history: session ids whose release steps have run
    uncaught,       \* an exception escaped a callback (the process is gone)
    logged,         \* the session log line written by the last step
    response,       \* the response sent by server.js in the last step
    keyReq,         \* the request handed to requireKey (key-check runs)
    keyRes,         \* what requireKey did with keyReq
    savedTokens,    \* server.js:27 the token set held, or NoTokens
    exchanges,      \* GET /oauth2/callback requests awaiting getToken (111)
    issued,         \* history: token sets issued by completed exchanges;
                    \* the latest one is number issued
    tasksReqs,      \* GET /tasks requests awaiting after line 129
    toolCall,       \* the tool invocation that is suspended at an await
    toolResult,     \* what a tool handler returned or threw in the last step
    searchReq,      \* the input of a run of the search handler
    searchRes       \* the hits the search handler returned for searchReq

vars == <<API_KEY, mcpInitPromise, initRuns, sessions, sessionTimers, armed,
          transportSid, closeCalls, nTransports, nextSid, inflight, now, lastTouch,
          released, uncaught, logged, response, keyReq, keyRes, savedTokens,
          exchanges, issued, tasksReqs, toolCall, toolResult, searchReq,
          searchRes>>

(* ------------------------- strings as sequences ------------------------ *)
K == <<"k">>
W == <<"w">>
Empty == <<>>

LowerChar(c) ==
    CASE c = "B" -> "b" [] c = "E" -> "e" [] c = "A" -> "a" [] c = "R" -> "r"
      [] c = "S" -> "s" [] c = "I" -> "i" [] c = "C" -> "c" [] c = "K" -> "k"
      [] c = "W" -> "w" [] OTHER -> c

\* String.prototype.toLowerCase
ToLowerCase(s) == [i \in 1..Len(s) |-> LowerChar(s[i])]

\* String.prototype.startsWith
StartsWith(s, p) == Len(s) >= Len(p) /\ SubSeq(s, 1, Len(p)) = p

\* String.prototype.slice(n)
Slice(s, n) == IF n >= Len(s) THEN <<>> ELSE SubSeq(s, n + 1, Len(s))

RECURSIVE TrimStart(_)
TrimStart(s) == IF s # <<>> /\ Head(s) = " " THEN TrimStart(Tail(s)) ELSE s

RECURSIVE TrimEnd(_)
TrimEnd(s) ==
    IF s # <<>> /\ s[Len(s)] = " " THEN TrimEnd(SubSeq(s, 1, Len(s) - 1)) ELSE s

\* String.prototype.trim
Trim(s) == TrimEnd(TrimStart(s))

\* JS truthiness of a string-or-undefined value
Truthy(v) == v # Null /\ v # Empty

\* JS a || b
Or(a, b) == IF Truthy(a) THEN a ELSE b

BearerPrefix == <<"b", "e", "a", "r", "e", "r", " ">>

(* ------------------------------ requireKey ----------------------------- *)
\* server.js:71  auth?.toLowerCase().startsWith('bearer ') ? auth.slice(7).trim() : null
Bearer(auth) ==
    IF auth # Null /\ StartsWith(ToLowerCase(auth), BearerPrefix)
    THEN Trim(Slice(auth, 7)) ELSE Null

\* server.js:72 with the header taken before the query parameter
PickKeyHeaderFirst(q, x, auth) == Or(Or(x, q), Bearer(auth))

\* server.js:72  const key = q || x || bearer
PickKey(q, x, auth) == Or(Or(q, x), Bearer(auth))

\* server.js:66-75 with line 73 reduced to key === API_KEY
RequireKeyNoKeyGuard(apiKey, method, q, x, auth) ==
    IF method = "OPTIONS" THEN "next"
    ELSE IF PickKey(q, x, auth) = apiKey THEN "next"
    ELSE "401"

\* server.js:66-75: "next" or "401"
RequireKey(apiKey, method, q, x, auth) ==
    IF method = "OPTIONS" THEN "next"
    ELSE IF Truthy(apiKey) /\ PickKey(q, x, auth) = apiKey THEN "next"
    ELSE "401"

QueryKeys == {Null, Empty, K, W}
HeaderKeys == {Null, K, W}
AuthHeaders ==
    { Null,
      <<"B", "e", "a", "r", "e", "r", " ", "k">>,
      <<"b", "e", "a", "r", "e", "r", " ", "w">>,
      <<"B", "E", "A", "R", "E", "R", " ", " ", "k", " ">>,
      <<"B", "a", "s", "i", "c", " ", "k">>,
      <<"B", "e", "a", "r", "e", "r", "k">> }
Methods == {"GET", "POST", "DELETE", "OPTIONS"}
\* process.env.MCP_API_KEY: not set, set to the empty string, set to a key
ApiKeys == {Null, Empty, K}

\* the credentials of the requests that reach the /mcp handlers
Credentials ==
    { <<K, Null, Null>>, <<Null, K, Null>>, <<W, K, Null>>, <<Null, Null, Null>>,
      <<Null, Null, <<"B", "e", "a", "r", "e", "r", " ", "k">> >> }

\* what requireKey answers to the requests of each method, for each API_KEY
KeyAnswers ==
    [k \in ApiKeys, m \in Methods |->
        {RequireKey(k, m, c[1], c[2], c[3]) : c \in Credentials}]
\* the /mcp routes mounted without requireKey
KeyAcceptsAny(method) == TRUE

\* some request of this method passes / fails the key check
KeyAccepts(method) == "next" \in KeyAnswers[API_KEY, method]
KeyRejects(method) == "401" \in KeyAnswers[API_KEY, method]

(* ------------------------------- Map ----------------------------------- *)
MapHas(m, k) == k \in DOMAIN m
MapSet(m, k, v) == [j \in DOMAIN m \cup {k} |-> IF j = k THEN v ELSE m[j]]
MapDelete(m, k) == [j \in DOMAIN m \ {k} |-> m[j]]
EmptyMap == [j \in {} |-> 0]

Transports == 1..MaxTransports
Sids == 1..MaxTransports

\* setTimeout returns a new handle: one that, among the handles made for
\* sessionId, no pending timer and no map entry holds
FreshHandle(sessionId, timers, arm) ==
    LET used == {t.h : t \in {u \in arm : u.sid = sessionId}}
                \cup {timers[k].h : k \in DOMAIN timers \cap {sessionId}}
    IN  CHOOSE n \in 1..(Cardinality(used) + 1) :
            n \notin used /\ \A j \in 1..(n - 1) : j \in used

\* the session state the lifecycle code reads and writes
SessionState ==
    [sessions |-> sessions, timers |-> sessionTimers, armed |-> armed,
     closeCalls |-> closeCalls, touch |-> lastTouch, uncaught |-> uncaught]

(* ---------------------------- touchSession ----------------------------- *)
\* server.js:164-175 without the clearTimeout of line 167
TouchSessionNoClear(sessionId, transport, st) ==
    IF sessionId = NoSid THEN st
    ELSE LET t == [h |-> FreshHandle(sessionId, MapDelete(st.timers, sessionId), st.armed),
                   sid |-> sessionId,
                   tr |-> transport, deadline |-> now + TTL_MS]
         IN  [st EXCEPT !.armed = st.armed \cup {t},
                        !.timers = MapSet(st.timers, sessionId, t),
                        !.touch = MapSet(st.touch, sessionId, now)]

\* server.js:164-175 without the guard of line 165
TouchSessionNoGuard(sessionId, transport, st) ==
    LET cleared == IF MapHas(st.timers, sessionId)
                   THEN st.armed \ {st.timers[sessionId]} ELSE st.armed
        t == [h |-> FreshHandle(sessionId, MapDelete(st.timers, sessionId), cleared),
              sid |-> sessionId, tr |-> transport,
              deadline |-> now + TTL_MS]
    IN  [st EXCEPT !.armed = cleared \cup {t},
                   !.timers = MapSet(st.timers, sessionId, t),
                   !.touch = MapSet(st.touch, sessionId, now)]

\* server.js:164-175 touchSession(sessionId, transport)
TouchSession(sessionId, transport, st) ==
    IF sessionId = NoSid THEN st
    ELSE LET cleared == IF MapHas(st.timers, sessionId)
                        THEN st.armed \ {st.timers[sessionId]} ELSE st.armed
             t == [h |-> FreshHandle(sessionId, MapDelete(st.timers, sessionId), cleared),
                   sid |-> sessionId, tr |-> transport,
                   deadline |-> now + TTL_MS]
         IN  [st EXCEPT !.armed = cleared \cup {t},
                        !.timers = MapSet(st.timers, sessionId, t),
                        !.touch = MapSet(st.touch, sessionId, now)]

(* ------------------------- transport.close() --------------------------- *)
\* one more invocation of close on transport tr (none for a missing transport)
CountClose(calls, tr) ==
    IF tr = NoTransport THEN calls
    ELSE [calls EXCEPT ![tr] = IF @ < MaxCloseCalls THEN @ + 1 ELSE @]

\* a close() outside try/catch: what it throws escapes
CloseUnguarded(throws) == throws

\* server.js:169, 373  try { transport.close() } catch { }: nothing escapes
CloseInTry(throws) == FALSE

(* --------------------------- release steps ----------------------------- *)
\* server.js:168-173 with the close of line 169 outside try/catch
TimerCallbackNoTry(sessionId, transport, throws, st) ==
    IF CloseUnguarded(throws)
    THEN [st EXCEPT !.closeCalls = CountClose(st.closeCalls, transport),
                    !.uncaught = TRUE]
    ELSE [st EXCEPT !.closeCalls = CountClose(st.closeCalls, transport),
                    !.sessions = MapDelete(st.sessions, sessionId),
                    !.timers = MapDelete(st.timers, sessionId)]

\* server.js:168-173 with sessions.clear() and sessionTimers.clear() in place
\* of the two delete(sessionId)
TimerCallbackClearsMaps(sessionId, transport, throws, st) ==
    [st EXCEPT !.closeCalls = CountClose(st.closeCalls, transport),
               !.uncaught = st.uncaught \/ CloseInTry(throws),
               !.sessions = EmptyMap,
               !.timers = EmptyMap]

\* server.js:168-173 without the sessions.delete of line 170
TimerCallbackKeepsEntry(sessionId, transport, throws, st) ==
    [st EXCEPT !.closeCalls = CountClose(st.closeCalls, transport),
               !.uncaught = st.uncaught \/ CloseInTry(throws),
               !.timers = MapDelete(st.timers, sessionId)]

\* server.js:168-173: the callback of the idle timer of sessionId
TimerCallback(sessionId, transport, throws, st) ==
    [st EXCEPT !.closeCalls = CountClose(st.closeCalls, transport),
               !.uncaught = st.uncaught \/ CloseInTry(throws),
               !.sessions = MapDelete(st.sessions, sessionId),
               !.timers = MapDelete(st.timers, sessionId)]

\* server.js:366-376 reduced to the log line, as the POST handler's listener
SessionCloseHandlerLogsOnly(sid, transport, throws, st) == st

\* server.js:366-376 without the clearTimeout of line 370
SessionCloseHandlerNoClear(sid, transport, throws, st) ==
    IF sid = NoSid THEN st
    ELSE [st EXCEPT !.timers = MapDelete(st.timers, sid),
                    !.sessions = MapDelete(st.sessions, sid),
                    !.closeCalls = CountClose(st.closeCalls, transport),
                    !.uncaught = st.uncaught \/ CloseInTry(throws)]

\* server.js:366-376: res.on('close') of GET / DELETE; sid = transport?.sessionId
SessionCloseHandler(sid, transport, throws, st) ==
    IF sid = NoSid THEN st
    ELSE [st EXCEPT !.armed = IF MapHas(st.timers, sid)
                              THEN st.armed \ {st.timers[sid]} ELSE st.armed,
                    !.timers = MapDelete(st.timers, sid),
                    !.sessions = MapDelete(st.sessions, sid),
                    !.closeCalls = CountClose(st.closeCalls, transport),
                    !.uncaught = st.uncaught \/ CloseInTry(throws)]

\* transport?.sessionId
SessionIdOf(tr) == IF tr = NoTransport THEN NoSid ELSE transportSid[tr]

\* server.js:322, 363  headerId ? sessions.get(headerId) : null
Lookup(headerId) ==
    IF headerId # NoHeader /\ MapHas(sessions, headerId)
    THEN sessions[headerId] ELSE NoTransport

\* the session state st written back to the variables
Store(st) ==
    /\ sessions' = st.sessions
    /\ sessionTimers' = st.timers
    /\ armed' = st.armed
    /\ closeCalls' = st.closeCalls
    /\ lastTouch' = [k \in {j \in DOMAIN st.touch : \E t \in st.armed : t.sid = j}
                        |-> st.touch[k]]
    /\ uncaught' = st.uncaught

SessionVars == <<sessions, sessionTimers, armed, closeCalls, lastTouch, uncaught>>
KeyVars == <<keyReq, keyRes>>
AuthVars == <<savedTokens, exchanges, issued, tasksReqs>>
ToolVars == <<toolCall, toolResult>>
SearchVars == <<searchReq, searchRes>>
TaskVars == <<AuthVars, ToolVars, SearchVars>>

(* ------------------------------ requests ------------------------------- *)
\* a request of /mcp between its arrival and the end of its connection
Request(method, pc, tr, open, hdr, isInit) ==
    [method |-> method, pc |-> pc, tr |-> tr, open |-> open, hdr |-> hdr,
     isInit |-> isInit]

One(r) == SetToBag({r})
InFlight == BagToSet(inflight)
HasRoom == BagCardinality(inflight) < MaxInFlight

\* the header values a client can send: none, a made-up id, an id once issued
HeaderIds == {NoHeader, Bogus} \cup 1..(nextSid - 1)

\* r after its handler has finished: it stays only while its connection is open
Finished(rest, r) ==
    IF r.open THEN rest (+) One([r EXCEPT !.pc = "handled"]) ELSE rest

Log(msg, sid) == [kind |-> msg, sessionId |-> sid]
Reply(status, body) == [kind |-> "response", status |-> status, body |-> body]

Live == ~uncaught
Quiet == logged' = None /\ response' = None

(* ------------------------------- Init ---------------------------------- *)
\* server.js:27: no tokens held, no exchange, no /tasks request, no tool call
NoTasksYet ==
    /\ savedTokens = NoTokens
    /\ exchanges = 0
    /\ issued = 0
    /\ tasksReqs = 0
    /\ toolCall = None
    /\ toolResult = None

Init ==
    /\ API_KEY \in ApiKeys
    /\ mcpInitPromise = "unset"
    /\ initRuns = 0
    /\ sessions = EmptyMap
    /\ sessionTimers = EmptyMap
    /\ armed = {}
    /\ transportSid = [t \in Transports |-> NoSid]
    /\ closeCalls = [t \in Transports |-> 0]
    /\ nTransports = 0
    /\ nextSid = 1
    /\ inflight = EmptyBag
    /\ now = 0
    /\ lastTouch = EmptyMap
    /\ released = {}
    /\ uncaught = FALSE
    /\ logged = None
    /\ response = None
    /\ keyReq = None
    /\ keyRes = "idle"
    /\ NoTasksYet
    /\ searchReq = None
    /\ searchRes = None

(* ------------------------------ key check ------------------------------ *)
\* server.js:74 on /mcp: a request that fails requireKey never reaches a handler
Unauthorized(method) ==
    /\ Live
    /\ KeyRejects(method)
    /\ response' = Reply(401, "unauthorized")
    /\ logged' = None
    /\ UNCHANGED <<API_KEY, mcpInitPromise, initRuns, transportSid, nTransports,
                   nextSid, inflight, now, released, SessionVars, KeyVars, TaskVars>>

\* server.js:39-47: an OPTIONS (pre-flight) request is ended by the cors
\* middleware, which is mounted before every route: no key is looked at
\* (requireKey itself lets OPTIONS through, line 67) and no handler runs
Options ==
    /\ Live
    /\ response' = Reply(204, "")
    /\ logged' = None
    /\ UNCHANGED <<API_KEY, mcpInitPromise, initRuns, transportSid, nTransports,
                   nextSid, inflight, now, released, SessionVars, KeyVars, TaskVars>>

(* ------------------------------ POST /mcp ------------------------------ *)
\* server.js:321-352 with a 500 in place of the 400 of lines 326-330
PostContinueThrows(rest, hdr, isInit) ==
    LET transport == Lookup(hdr) IN
    IF transport # NoTransport
    THEN /\ BagCardinality(rest) < MaxInFlight
         /\ Store(TouchSession(SessionIdOf(transport), transport, SessionState))
         /\ inflight' = rest (+) One(Request("POST", "handling", transport,
                                             TRUE, NoHeader, FALSE))
         /\ Quiet
         /\ UNCHANGED nTransports
    ELSE IF ~isInit
    THEN /\ response' = Reply(500, "mcp error")
         /\ logged' = None
         /\ inflight' = rest
         /\ UNCHANGED <<nTransports, SessionVars>>
    ELSE /\ nTransports < MaxTransports
         /\ BagCardinality(rest) < MaxInFlight
         /\ \/ /\ nTransports' = nTransports + 1
               /\ inflight' = rest (+) One(Request("POST", "handling",
                                            nTransports + 1, TRUE, NoHeader, FALSE))
               /\ Quiet
            \/ /\ response' = Reply(500, "mcp error")
               /\ logged' = Log("mcp error (POST /mcp)", NoSid)
               /\ inflight' = rest
               /\ UNCHANGED nTransports
         /\ UNCHANGED SessionVars

\* server.js:321-352, from the session lookup to the call of handleRequest:
\* the request of header hdr and payload kind isInit joins the requests rest.
\* The new transport of 333 is in no map while server.connect is awaited, so
\* that await is not a separate step.
PostContinue(rest, hdr, isInit) ==
    LET transport == Lookup(hdr) IN
    IF transport # NoTransport
    THEN \* 343-345: continue the session
         /\ BagCardinality(rest) < MaxInFlight
         /\ Store(TouchSession(SessionIdOf(transport), transport, SessionState))
         /\ inflight' = rest (+) One(Request("POST", "handling", transport,
                                             TRUE, NoHeader, FALSE))
         /\ Quiet
         /\ UNCHANGED nTransports
    ELSE IF ~isInit
    THEN \* 325-331: no session and no initialize
         /\ response' = Reply(400, "jsonrpc -32000")
         /\ logged' = None
         /\ inflight' = rest
         /\ UNCHANGED <<nTransports, SessionVars>>
    ELSE \* 333-342: a new transport; server.connect resolves or throws
         /\ nTransports < MaxTransports
         /\ BagCardinality(rest) < MaxInFlight
         /\ \/ /\ nTransports' = nTransports + 1
               /\ inflight' = rest (+) One(Request("POST", "handling",
                                            nTransports + 1, TRUE, NoHeader, FALSE))
               /\ Quiet
            \/ /\ response' = Reply(500, "mcp error")
               /\ logged' = Log("mcp error (POST /mcp)", NoSid)
               /\ inflight' = rest
               /\ UNCHANGED nTransports
         /\ UNCHANGED SessionVars

\* server.js:309-311 and 177-301 without the test of line 178: every call of
\* initMcpServer() that finds no resolved promise starts the body again
PostArriveInitEach(hdr, isInit) ==
    /\ Live
    /\ KeyAccepts("POST")
    /\ hdr \in HeaderIds
    /\ IF mcpInitPromise = "resolved"
       THEN /\ PostContinue(inflight, hdr, isInit)
            /\ UNCHANGED <<mcpInitPromise, initRuns>>
       ELSE /\ HasRoom
            /\ mcpInitPromise' = "pending"
            /\ initRuns' = initRuns + 1
            /\ inflight' = inflight (+) One(Request("POST", "awaitInit", NoTransport,
                                                    TRUE, hdr, isInit))
            /\ Quiet
            /\ UNCHANGED <<nTransports, SessionVars>>
    /\ UNCHANGED <<API_KEY, transportSid, nextSid, now, released, KeyVars, TaskVars>>

\* server.js:309-311 and 177-301: key check, then initMcpServer(); the handler
\* goes on at once when the promise is resolved, and waits for it otherwise
PostArrive(hdr, isInit) ==
    /\ Live
    /\ KeyAccepts("POST")
    /\ hdr \in HeaderIds
    /\ IF mcpInitPromise = "resolved"
       THEN /\ PostContinue(inflight, hdr, isInit)
            /\ UNCHANGED <<mcpInitPromise, initRuns>>
       ELSE /\ HasRoom
            /\ mcpInitPromise' = "pending"
            /\ initRuns' = IF mcpInitPromise = "unset" THEN initRuns + 1 ELSE initRuns
            /\ inflight' = inflight (+) One(Request("POST", "awaitInit", NoTransport,
                                                    TRUE, hdr, isInit))
            /\ Quiet
            /\ UNCHANGED <<nTransports, SessionVars>>
    /\ UNCHANGED <<API_KEY, transportSid, nextSid, now, released, KeyVars, TaskVars>>

\* server.js:179-298: the imports and the tool registrations finish
InitResolve ==
    /\ Live
    /\ mcpInitPromise = "pending"
    /\ mcpInitPromise' = "resolved"
    /\ Quiet
    /\ UNCHANGED <<API_KEY, initRuns, transportSid, nTransports, nextSid, inflight,
                   now, released, SessionVars, KeyVars, TaskVars>>

\* server.js:311: a POST that waited for initMcpServer goes on
PostDispatch(r) ==
    /\ Live
    /\ r \in InFlight
    /\ r.pc = "awaitInit"
    /\ mcpInitPromise = "resolved"
    /\ PostContinue(inflight (-) One(r), r.hdr, r.isInit)
    /\ UNCHANGED <<API_KEY, mcpInitPromise, initRuns, transportSid, nextSid, now,
                   released, KeyVars, TaskVars>>

\* server.js:334-339: inside handleRequest the transport takes a fresh id from
\* sessionIdGenerator and calls onsessioninitialized(sessionId)
PostInitialized(r) ==
    /\ Live
    /\ r \in InFlight
    /\ r.method = "POST" /\ r.pc = "handling"
    /\ transportSid[r.tr] = NoSid
    /\ transportSid' = [transportSid EXCEPT ![r.tr] = nextSid]
    /\ nextSid' = nextSid + 1
    /\ Store(TouchSession(nextSid, r.tr,
                          [SessionState EXCEPT
                              !.sessions = MapSet(sessions, nextSid, r.tr)]))
    /\ logged' = Log("MCP session initialized", nextSid)
    /\ response' = None
    /\ UNCHANGED <<API_KEY, mcpInitPromise, initRuns, nTransports, inflight, now,
                   released, KeyVars, TaskVars>>

\* server.js:352-353 without the touchSession of line 353
PostHandledNoTouch(r) ==
    /\ Live
    /\ r \in InFlight
    /\ r.method = "POST" /\ r.pc = "handling"
    /\ inflight' = Finished(inflight (-) One(r), r)
    /\ Quiet
    /\ UNCHANGED <<API_KEY, mcpInitPromise, initRuns, transportSid, nTransports,
                   nextSid, now, released, SessionVars, KeyVars, TaskVars>>

\* server.js:352-353: handleRequest resolves, then touchSession
PostHandled(r) ==
    /\ Live
    /\ r \in InFlight
    /\ r.method = "POST" /\ r.pc = "handling"
    /\ Store(TouchSession(SessionIdOf(r.tr), r.tr, SessionState))
    /\ inflight' = Finished(inflight (-) One(r), r)
    /\ Quiet
    /\ UNCHANGED <<API_KEY, mcpInitPromise, initRuns, transportSid, nTransports,
                   nextSid, now, released, KeyVars, TaskVars>>

\* server.js:354-357: handleRequest throws
PostThrows(r) ==
    /\ Live
    /\ r \in InFlight
    /\ r.method = "POST" /\ r.pc = "handling"
    /\ inflight' = Finished(inflight (-) One(r), r)
    /\ response' = Reply(500, "mcp error")
    /\ logged' = Log("mcp error (POST /mcp)", SessionIdOf(r.tr))
    /\ UNCHANGED <<API_KEY, mcpInitPromise, initRuns, transportSid, nTransports,
                   nextSid, now, released, SessionVars, KeyVars, TaskVars>>

\* server.js:347-350 doing what the GET / DELETE listener of 366-376 does
PostCloseHandlerReleases(sid, transport, st) ==
    SessionCloseHandler(sid, transport, FALSE, st)

\* server.js:347-350: res.on('close') of POST only logs
PostCloseHandler(sid, transport, st) == st

\* server.js:347-350: the connection of a POST closes
PostClose(r) ==
    /\ Live
    /\ r \in InFlight
    /\ r.method = "POST" /\ r.pc \in {"handling", "handled"} /\ r.open
    /\ Store(PostCloseHandler(SessionIdOf(r.tr), r.tr, SessionState))
    /\ logged' = IF SessionIdOf(r.tr) # NoSid
                 THEN Log("MCP POST closed (session preserved by TTL)",
                          SessionIdOf(r.tr))
                 ELSE None
    /\ response' = None
    /\ inflight' = IF r.pc = "handled" THEN inflight (-) One(r)
                   ELSE (inflight (-) One(r)) (+) One([r EXCEPT !.open = FALSE])
    /\ UNCHANGED <<API_KEY, mcpInitPromise, initRuns, transportSid, nTransports,
                   nextSid, now, released, KeyVars, TaskVars>>

(* --------------------------- GET, DELETE /mcp -------------------------- *)
\* server.js:360-379 answering an unresolvable session id with a 500
SessArriveThrows(method, hdr) ==
    /\ Live
    /\ method \in {"GET", "DELETE"}
    /\ KeyAccepts(method)
    /\ hdr \in HeaderIds
    /\ IF Lookup(hdr) = NoTransport
       THEN /\ response' = Reply(500, "mcp error")
            /\ logged' = None
            /\ UNCHANGED <<inflight, SessionVars>>
       ELSE /\ HasRoom
            /\ Store(TouchSession(SessionIdOf(Lookup(hdr)), Lookup(hdr),
                                  SessionState))
            /\ inflight' = inflight (+) One(Request(method, "handling", Lookup(hdr),
                                                    TRUE, NoHeader, FALSE))
            /\ Quiet
    /\ UNCHANGED <<API_KEY, mcpInitPromise, initRuns, transportSid, nTransports,
                   nextSid, now, released, KeyVars, TaskVars>>

\* server.js:360-379: key check, lookup, close listener, touch, handleRequest
SessArrive(method, hdr) ==
    /\ Live
    /\ method \in {"GET", "DELETE"}
    /\ KeyAccepts(method)
    /\ hdr \in HeaderIds
    /\ IF Lookup(hdr) = NoTransport
       THEN \* 364
            /\ response' = Reply(400, "Invalid or missing session ID")
            /\ logged' = None
            /\ UNCHANGED <<inflight, SessionVars>>
       ELSE \* 366-379
            /\ HasRoom
            /\ Store(TouchSession(SessionIdOf(Lookup(hdr)), Lookup(hdr),
                                  SessionState))
            /\ inflight' = inflight (+) One(Request(method, "handling", Lookup(hdr),
                                                    TRUE, NoHeader, FALSE))
            /\ Quiet
    /\ UNCHANGED <<API_KEY, mcpInitPromise, initRuns, transportSid, nTransports,
                   nextSid, now, released, KeyVars, TaskVars>>

\* server.js:379: handleRequest of a GET / DELETE resolves
SessHandled(r) ==
    /\ Live
    /\ r \in InFlight
    /\ r.method \in {"GET", "DELETE"} /\ r.pc = "handling"
    /\ inflight' = Finished(inflight (-) One(r), r)
    /\ Quiet
    /\ UNCHANGED <<API_KEY, mcpInitPromise, initRuns, transportSid, nTransports,
                   nextSid, now, released, SessionVars, KeyVars, TaskVars>>

\* server.js:380-383: handleRequest of a GET / DELETE throws
SessThrows(r) ==
    /\ Live
    /\ r \in InFlight
    /\ r.method \in {"GET", "DELETE"} /\ r.pc = "handling"
    /\ inflight' = Finished(inflight (-) One(r), r)
    /\ response' = Reply(500, "mcp error")
    /\ logged' = Log("mcp error (GET/DELETE /mcp)", SessionIdOf(r.tr))
    /\ UNCHANGED <<API_KEY, mcpInitPromise, initRuns, transportSid, nTransports,
                   nextSid, now, released, SessionVars, KeyVars, TaskVars>>

\* server.js:366-376: the connection of a GET / DELETE closes
SessClose(r, throws) ==
    /\ Live
    /\ r \in InFlight
    /\ r.method \in {"GET", "DELETE"} /\ r.open
    /\ Store(SessionCloseHandler(SessionIdOf(r.tr), r.tr, throws, SessionState))
    /\ released' = IF SessionIdOf(r.tr) # NoSid
                   THEN released \cup {SessionIdOf(r.tr)} ELSE released
    /\ logged' = IF SessionIdOf(r.tr) # NoSid
                 THEN Log("MCP session closed (GET/DELETE)", SessionIdOf(r.tr))
                 ELSE None
    /\ response' = None
    /\ inflight' = IF r.pc = "handled" THEN inflight (-) One(r)
                   ELSE (inflight (-) One(r)) (+) One([r EXCEPT !.open = FALSE])
    /\ UNCHANGED <<API_KEY, mcpInitPromise, initRuns, transportSid, nTransports,
                   nextSid, now, KeyVars, TaskVars>>

(* ------------------------------- timers -------------------------------- *)
\* setTimeout(cb, TTL_MS): a pending timer may fire once its delay has passed
Due(tm) == now >= tm.deadline

\* server.js:168-173: the idle timer tm fires
Expire(tm, throws) ==
    /\ Live
    /\ tm \in armed
    /\ Due(tm)
    /\ Store(TimerCallback(tm.sid, tm.tr, throws,
                           [SessionState EXCEPT !.armed = armed \ {tm}]))
    /\ released' = released \cup {tm.sid}
    /\ logged' = Log("MCP session expired (TTL)", tm.sid)
    /\ response' = None
    /\ UNCHANGED <<API_KEY, mcpInitPromise, initRuns, transportSid, nTransports,
                   nextSid, inflight, now, KeyVars, TaskVars>>

\* time passes
Tick ==
    /\ Live
    /\ now < MaxTicks * TickMs
    /\ now' = now + TickMs
    /\ Quiet
    /\ UNCHANGED <<API_KEY, mcpInitPromise, initRuns, transportSid, nTransports,
                   nextSid, inflight, released, SessionVars, KeyVars, TaskVars>>

(* ---------------------------- specification ---------------------------- *)
Next ==
    \/ \E m \in {"GET", "POST", "DELETE"} : Unauthorized(m)
    \/ Options
    \/ \E hdr \in {NoHeader, Bogus} \cup Sids, isInit \in BOOLEAN :
           PostArrive(hdr, isInit)
    \/ InitResolve
    \/ \E r \in InFlight : PostDispatch(r)
    \/ \E r \in InFlight : PostInitialized(r)
    \/ \E r \in InFlight : PostHandled(r)
    \/ \E r \in InFlight : PostThrows(r)
    \/ \E r \in InFlight : PostClose(r)
    \/ \E m \in {"GET", "DELETE"}, hdr \in {NoHeader, Bogus} \cup Sids :
           SessArrive(m, hdr)
    \/ \E r \in InFlight : SessHandled(r)
    \/ \E r \in InFlight : SessThrows(r)
    \/ \E r \in InFlight, throws \in BOOLEAN : SessClose(r, throws)
    \/ \E tm \in armed, throws \in BOOLEAN : Expire(tm, throws)
    \/ Tick

Spec == Init /\ [][Next]_vars

(* ------------------- requireKey on its own (SpecKey) ------------------- *)
KeyRequests ==
    [method : Methods, q : QueryKeys, x : HeaderKeys, auth : AuthHeaders]

InitKey ==
    /\ API_KEY \in ApiKeys
    /\ mcpInitPromise = "unset"
    /\ initRuns = 0
    /\ sessions = EmptyMap
    /\ sessionTimers = EmptyMap
    /\ armed = {}
    /\ transportSid = [t \in Transports |-> NoSid]
    /\ closeCalls = [t \in Transports |-> 0]
    /\ nTransports = 0
    /\ nextSid = 1
    /\ inflight = EmptyBag
    /\ now = 0
    /\ lastTouch = EmptyMap
    /\ released = {}
    /\ uncaught = FALSE
    /\ logged = None
    /\ response = None
    /\ keyReq \in KeyRequests
    /\ keyRes = "pending"
    /\ NoTasksYet
    /\ searchReq = None
    /\ searchRes = None

\* server.js:66-75: requireKey(req, res, next) runs on keyReq
CheckKey ==
    /\ keyRes = "pending"
    /\ keyRes' = RequireKey(API_KEY, keyReq.method, keyReq.q, keyReq.x, keyReq.auth)
    /\ response' = IF keyRes' = "401" THEN Reply(401, "unauthorized") ELSE None
    /\ UNCHANGED <<API_KEY, mcpInitPromise, initRuns, transportSid, nTransports,
                   nextSid, inflight, now, released, SessionVars, logged, keyReq,
                   TaskVars>>

NextKey == CheckKey

SpecKey == InitKey /\ [][NextKey]_vars

(* ---------------------- OAuth2 callback and /tasks --------------------- *)
\* everything of the /mcp side and of the key check
ServerVars ==
    <<API_KEY, mcpInitPromise, initRuns, transportSid, nTransports, nextSid,
      inflight, now, released, SessionVars, KeyVars>>

AuthorizeFirst == "Authorize first at /oauth2/start"

\* server.js:107-111: GET /oauth2/callback arrives; without a code it is
\* answered 400 at once, with one the handler awaits oauth2Client.getToken
CallbackArrive(hasCode) ==
    /\ Live
    /\ IF hasCode
       THEN /\ exchanges < MaxExchanges
            /\ exchanges' = exchanges + 1
            /\ response' = None
       ELSE /\ response' = Reply(400, "missing code")
            /\ UNCHANGED exchanges
    /\ logged' = None
    /\ UNCHANGED <<ServerVars, savedTokens, issued, tasksReqs, ToolVars, SearchVars>>

\* server.js:111-114: getToken resolves with the token set the provider has
\* just issued; it is stored
ExchangeResolves ==
    /\ Live
    /\ exchanges > 0
    /\ issued < MaxTokenSets
    /\ exchanges' = exchanges - 1
    /\ issued' = issued + 1
    /\ savedTokens' = issued + 1
    /\ response' = Reply(200, "OAuth OK")
    /\ logged' = None
    /\ UNCHANGED <<ServerVars, tasksReqs, ToolVars, SearchVars>>

\* server.js:115-120 with savedTokens = null added to the catch block
ExchangeRejectsClears ==
    /\ Live
    /\ exchanges > 0
    /\ exchanges' = exchanges - 1
    /\ savedTokens' = NoTokens
    /\ response' = Reply(500, "oauth error")
    /\ logged' = Log("oauth error", NoSid)
    /\ UNCHANGED <<ServerVars, issued, tasksReqs, ToolVars, SearchVars>>

\* server.js:115-120: getToken rejects
ExchangeRejects ==
    /\ Live
    /\ exchanges > 0
    /\ exchanges' = exchanges - 1
    /\ response' = Reply(500, "oauth error")
    /\ logged' = Log("oauth error", NoSid)
    /\ UNCHANGED <<ServerVars, savedTokens, issued, tasksReqs, ToolVars, SearchVars>>

\* server.js:124, 74: GET /tasks fails requireKey
TasksUnauthorized ==
    /\ Live
    /\ KeyRejects("GET")
    /\ response' = Reply(401, "unauthorized")
    /\ logged' = None
    /\ UNCHANGED <<ServerVars, AuthVars, ToolVars, SearchVars>>

\* server.js:124-131: GET /tasks passes requireKey; with no tokens it is
\* answered 401 at once, otherwise the handler awaits getAccessToken
TasksArrive ==
    /\ Live
    /\ KeyAccepts("GET")
    /\ IF savedTokens = NoTokens
       THEN /\ response' = Reply(401, AuthorizeFirst)
            /\ UNCHANGED tasksReqs
       ELSE /\ tasksReqs < MaxTasksReqs
            /\ tasksReqs' = tasksReqs + 1
            /\ response' = None
    /\ logged' = None
    /\ UNCHANGED <<ServerVars, savedTokens, exchanges, issued, ToolVars, SearchVars>>

TasksOutcomes == {"noToken", "noLists", "ok", "throws"}

\* server.js:131-155: the rest of GET /tasks. Nothing shared is read or
\* written after line 129, so its awaits are one step: no access token, no
\* task list, a list with its tasks, or an exception
TasksRespond(outcome) ==
    /\ Live
    /\ tasksReqs > 0
    /\ tasksReqs' = tasksReqs - 1
    /\ response' =
          CASE outcome = "noToken" ->
                   Reply(401, "No access token; try /oauth2/start again")
            [] outcome = "noLists" -> Reply(200, "lists: [], tasks: []")
            [] outcome = "ok" -> Reply(200, "list, tasks")
            [] outcome = "throws" -> Reply(500, "tasks error")
    /\ logged' = IF outcome = "throws" THEN Log("tasks error", NoSid) ELSE None
    /\ UNCHANGED <<ServerVars, savedTokens, exchanges, issued, ToolVars, SearchVars>>

NextOAuth ==
    \/ \E hasCode \in BOOLEAN : CallbackArrive(hasCode)
    \/ ExchangeResolves
    \/ ExchangeRejects
    \/ TasksUnauthorized
    \/ TasksArrive
    \/ \E outcome \in TasksOutcomes : TasksRespond(outcome)

SpecOAuth == Init /\ [][NextOAuth]_vars

(* -------------------------------- tools -------------------------------- *)
Tools == {"search", "fetch", "create_task"}

\* server.js:190, 194: the two error messages of authHeader
NotAuthorized == "Not authorized. Visit /oauth2/start first."
NoAccessToken == "No access token (re-auth at /oauth2/start)"

\* { content: [{ type: 'text', text }], isError } returned by the handler of
\* tool, called on transport tr; remote: a task-API request was made for it
ToolReturn(tool, tr, text, isError, remote) ==
    [kind |-> "returned", tool |-> tool, tr |-> tr, text |-> text,
     isError |-> isError, remote |-> remote]

\* the handler of tool rejects
ToolThrow(tool, tr, remote) ==
    [kind |-> "thrown", tool |-> tool, tr |-> tr, remote |-> remote]

\* server.js:222, 255, 278 with line 190 of authHeader left out
ToolCallNoTokenTest(r, tool) ==
    /\ Live
    /\ r \in InFlight
    /\ r.method = "POST" /\ r.pc = "handling"
    /\ SessionIdOf(r.tr) # NoSid
    /\ toolCall = None
    /\ toolCall' = [kind |-> "call", tool |-> tool, tr |-> r.tr,
                    pc |-> "getAccessToken"]
    /\ toolResult' = None
    /\ Quiet
    /\ UNCHANGED <<ServerVars, AuthVars, SearchVars>>

\* server.js:220-223, 254-256, 277-279 and 189-192: a tools/call message of the
\* POST r reaches the handler of tool, which calls authHeader(): with no
\* tokens held it returns the error result at once, otherwise authHeader
\* awaits getAccessToken
ToolCall(r, tool) ==
    /\ Live
    /\ r \in InFlight
    /\ r.method = "POST" /\ r.pc = "handling"
    /\ SessionIdOf(r.tr) # NoSid
    /\ toolCall = None
    /\ IF savedTokens = NoTokens
       THEN /\ toolResult' = ToolReturn(tool, r.tr, NotAuthorized, TRUE, FALSE)
            /\ UNCHANGED toolCall
       ELSE /\ toolCall' = [kind |-> "call", tool |-> tool, tr |-> r.tr,
                            pc |-> "getAccessToken"]
            /\ toolResult' = None
    /\ Quiet
    /\ UNCHANGED <<ServerVars, AuthVars, SearchVars>>

\* oauth2Client.getAccessToken(): a token, none, or a rejection
TokenOutcomes == {"token", "noToken", "rejects"}

\* server.js:192-198 and 223, 256, 279: getAccessToken settles; without a
\* token authHeader returns the error and the handler returns the error
\* result; a rejection is caught nowhere in the handler
ToolToken(outcome) ==
    /\ Live
    /\ toolCall # None
    /\ toolCall.pc = "getAccessToken"
    /\ CASE outcome = "token" ->
                /\ toolCall' = [toolCall EXCEPT !.pc = "remote"]
                /\ toolResult' = None
         [] outcome = "noToken" ->
                /\ toolCall' = None
                /\ toolResult' = ToolReturn(toolCall.tool, toolCall.tr,
                                            NoAccessToken, TRUE, FALSE)
         [] outcome = "rejects" ->
                /\ toolCall' = None
                /\ toolResult' = ToolThrow(toolCall.tool, toolCall.tr, FALSE)
    /\ Quiet
    /\ UNCHANGED <<ServerVars, AuthVars, SearchVars>>

\* how the task-API requests of a handler end
RemoteOutcomes(tool) ==
    {"ok", "throws"} \cup (IF tool = "create_task" THEN {"noLists"} ELSE {})

\* server.js:225-239, 258-260, 281-293: the task-API requests of the handler.
\* Nothing shared is read or written between them, so they are one step
ToolRemote(outcome) ==
    /\ Live
    /\ toolCall # None
    /\ toolCall.pc = "remote"
    /\ outcome \in RemoteOutcomes(toolCall.tool)
    /\ toolCall' = None
    /\ toolResult' =
          CASE outcome = "ok" ->
                   ToolReturn(toolCall.tool, toolCall.tr, "JSON", FALSE, TRUE)
            [] outcome = "noLists" ->
                   ToolReturn(toolCall.tool, toolCall.tr, "No task lists found.",
                              TRUE, TRUE)
            [] outcome = "throws" -> ToolThrow(toolCall.tool, toolCall.tr, TRUE)
    /\ Quiet
    /\ UNCHANGED <<ServerVars, AuthVars, SearchVars>>

\* the tokens held when the MCP requests start: none, or those of an exchange
InitTools ==
    /\ API_KEY \in ApiKeys
    /\ mcpInitPromise = "unset"
    /\ initRuns = 0
    /\ sessions = EmptyMap
    /\ sessionTimers = EmptyMap
    /\ armed = {}
    /\ transportSid = [t \in Transports |-> NoSid]
    /\ closeCalls = [t \in Transports |-> 0]
    /\ nTransports = 0
    /\ nextSid = 1
    /\ inflight = EmptyBag
    /\ now = 0
    /\ lastTouch = EmptyMap
    /\ released = {}
    /\ uncaught = FALSE
    /\ logged = None
    /\ response = None
    /\ keyReq = None
    /\ keyRes = "idle"
    /\ issued \in 0..MaxTokenSets
    /\ savedTokens = issued
    /\ exchanges = 0
    /\ tasksReqs = 0
    /\ toolCall = None
    /\ toolResult = None
    /\ searchReq = None
    /\ searchRes = None

\* the MCP sessions with tool calls on them
NextTools ==
    \/ \E hdr \in {NoHeader} \cup Sids, isInit \in BOOLEAN : PostArrive(hdr, isInit)
    \/ InitResolve
    \/ \E r \in InFlight : PostDispatch(r)
    \/ \E r \in InFlight : PostInitialized(r)
    \/ \E r \in InFlight : PostHandled(r)
    \/ \E hdr \in Sids : SessArrive("GET", hdr)
    \/ \E r \in InFlight : SessClose(r, FALSE)
    \/ \E tm \in armed : Expire(tm, FALSE)
    \/ Tick
    \/ \E r \in InFlight, tool \in Tools : ToolCall(r, tool)
    \/ \E outcome \in TokenOutcomes : ToolToken(outcome)
    \/ \E outcome \in {"ok", "throws", "noLists"} : ToolRemote(outcome)

SpecTools == InitTools /\ [][NextTools]_vars

(* ---------------------- the search handler (SpecSearch) ---------------- *)
\* server.js:239  hits.slice(0, 25)
MaxHits == 25

\* String.prototype.includes
Includes(s, sub) ==
    \E i \in 0..(Len(s) - Len(sub)) : SubSeq(s, i + 1, i + Len(sub)) = sub

\* Array.prototype.slice(0, n)
SliceTo(a, n) == IF Len(a) <= n THEN a ELSE SubSeq(a, 1, n)

\* the body j of a task-API answer: with items, or without (an error body, a
\* list that has no tasks)
Body(items) == [hasItems |-> TRUE, items |-> items]
NoItems == [hasItems |-> FALSE, items |-> <<>>]

\* j.items || []
ItemsOr(j) == IF j.hasItems THEN j.items ELSE <<>>

\* the task API: a task list of n tasks, numbered in list order, whose titles
\* go round titles and of which every third is completed
TaskList(id, n, titles) ==
    [id |-> id, hasItems |-> TRUE,
     items |-> [i \in 1..n |->
                   [id |-> i, title |-> titles[((i - 1) % Len(titles)) + 1],
                    completed |-> (i % 3 = 0)]]]

Beer == <<"B", "e", "e", "r">>
Wasabi == <<"W", "A", "S", "A", "B", "I">>
Rice == <<"r", "i", "c", "e">>

\* the task lists an account is made of; the third answers without items
TaskLists ==
    { TaskList(<<"a">>, LongList, <<Beer, Wasabi>>),
      TaskList(<<"b">>, LongList + 1, <<Rice, Beer, Null>>),
      [id |-> <<"c">>, hasItems |-> FALSE, items |-> <<>>],
      TaskList(<<"d">>, LongList, <<Rice, Beer>>) }

\* an account: up to MaxLists task lists of different ids, in the API's order
Accounts ==
    UNION { {a \in [1..n -> TaskLists] : \A i, j \in 1..n : i # j => a[i].id # a[j].id}
            : n \in 0..MaxLists }

\* GET lists/{id}/tasks?showCompleted={show}: the items of the list, none for
\* an id the account does not have
FetchTasks(account, id, show) ==
    LET found == {i \in 1..Len(account) : account[i].id = id}
    IN  IF found = {} THEN NoItems
        ELSE LET list == account[CHOOSE i \in found : TRUE]
             IN  IF ~list.hasItems THEN NoItems
                 ELSE Body(SelectSeq(list.items, LAMBDA t : show \/ ~t.completed))

\* server.js:201-205 listTaskLists: j.items || []
ListTaskLists(account) == [i \in 1..Len(account) |-> [id |-> account[i].id]]

\* server.js:234: !query || String(t.title || '').toLowerCase()
\*                               .includes(query.toLowerCase())
Hit(t, query) ==
    \/ ~Truthy(query)
    \/ Includes(ToLowerCase(Or(t.title, Empty)), ToLowerCase(query))

\* server.js:233-237: the inner loop, from item i on
RECURSIVE PushHits(_, _, _, _, _)
PushHits(items, i, lid, query, hits) ==
    IF i > Len(items) THEN hits
    ELSE PushHits(items, i + 1, lid, query,
                  IF Hit(items[i], query)
                  THEN Append(hits, [listId |-> lid, task |-> items[i]])
                  ELSE hits)

\* server.js:227-238: the outer loop, from list k on
RECURSIVE VisitLists(_, _, _, _, _, _)
VisitLists(lists, k, account, show, query, hits) ==
    IF k > Len(lists) THEN hits
    ELSE VisitLists(lists, k + 1, account, show, query,
                    PushHits(ItemsOr(FetchTasks(account, lists[k].id, show)), 1,
                             lists[k].id, query, hits))

\* server.js:220-239 without the slice of line 239
SearchUncapped(query, listId, showCompleted, account) ==
    LET show == IF showCompleted \in {"true", "false"}
                THEN showCompleted = "true" ELSE TRUE
        lists == IF Truthy(listId) THEN <<[id |-> listId]>>
                 ELSE ListTaskLists(account)
    IN  VisitLists(lists, 1, account, show, query, <<>>)

\* server.js:220-239: the search handler, once authHeader has given headers
Search(query, listId, showCompleted, account) ==
    LET show == IF showCompleted \in {"true", "false"}
                THEN showCompleted = "true" ELSE TRUE
        lists == IF Truthy(listId) THEN <<[id |-> listId]>>
                 ELSE ListTaskLists(account)
    IN  SliceTo(VisitLists(lists, 1, account, show, query, <<>>), MaxHits)

\* the inputs of search: query and listId omitted, empty or given,
\* showCompleted omitted or given
Queries == {Null, Empty, <<"b", "e", "e">>, <<"E">>, <<"s", "a", "b">>, <<"k">>}
ListIds == {Null, Empty, <<"a">>, <<"b">>, <<"z">>}
SearchRequests ==
    [query : Queries, listId : ListIds,
     showCompleted : {"undefined", "true", "false"}, account : Accounts]

InitSearch ==
    /\ API_KEY \in ApiKeys
    /\ mcpInitPromise = "unset"
    /\ initRuns = 0
    /\ sessions = EmptyMap
    /\ sessionTimers = EmptyMap
    /\ armed = {}
    /\ transportSid = [t \in Transports |-> NoSid]
    /\ closeCalls = [t \in Transports |-> 0]
    /\ nTransports = 0
    /\ nextSid = 1
    /\ inflight = EmptyBag
    /\ now = 0
    /\ lastTouch = EmptyMap
    /\ released = {}
    /\ uncaught = FALSE
    /\ logged = None
    /\ response = None
    /\ keyReq = None
    /\ keyRes = "idle"
    /\ NoTasksYet
    /\ searchReq \in SearchRequests
    /\ searchRes = None

\* server.js:220-239: the handler runs on searchReq
RunSearch ==
    /\ searchRes = None
    /\ searchRes' = [kind |-> "hits",
                     hits |-> Search(searchReq.query, searchReq.listId,
                                     searchReq.showCompleted, searchReq.account)]
    /\ UNCHANGED <<ServerVars, logged, response, AuthVars, ToolVars, searchReq>>

NextSearch == RunSearch

SpecSearch == InitSearch /\ [][NextSearch]_vars

(* ======================= properties of the session maps ================ *)
Closed(sid) == Log("MCP session closed (GET/DELETE)", sid)
Expired(sid) == Log("MCP session expired (TTL)", sid)
PostClosed(sid) == Log("MCP POST closed (session preserved by TTL)", sid)

\* the requests in flight on transport tr
OnTransport(tr) == {r \in InFlight : r.pc # "awaitInit" /\ r.tr = tr}

\* this step is the close of the connection of a request of method m on sid
ConnectionCloses(m, sid) ==
    \E r \in InFlight :
        /\ r.method = m
        /\ SessionIdOf(r.tr) = sid
        /\ IF m = "POST" THEN PostClose(r)
           ELSE \E throws \in BOOLEAN : SessClose(r, throws)

\* this step is the firing of an idle timer of sid
TimerFires(sid) ==
    \E tm \in armed : tm.sid = sid /\ \E throws \in BOOLEAN : Expire(tm, throws)

\* the event loop: the clock advances, and a timer whose delay has passed gets
\* its callback run
SpecFair ==
    /\ Init /\ [][Next]_vars
    /\ WF_vars(Tick)
    /\ \A sid \in Sids : WF_vars(TimerFires(sid))

\* sid has been touched and TTL_MS have passed since its latest touch
IdleForTTL(sid) == MapHas(lastTouch, sid) /\ now >= lastTouch[sid] + TTL_MS

\* C1: the close operation of a transport is never invoked a second time,
\* whichever of timeout, teardown or error released its session.
C1_CloseInvokedAtMostOnce == \A t \in Transports : closeCalls[t] <= 1

\* C2: a released session id has no entry in the session map and none in the
\* timer map, also after a POST that was in flight at its release completes.
C2_ReleasedHasNoEntry ==
    \A sid \in released : ~MapHas(sessions, sid) /\ ~MapHas(sessionTimers, sid)

\* C3: every session id in the session map has exactly one armed idle timer,
\* the one the timer map holds for it.
C3_OneArmedTimerPerSession ==
    \A sid \in DOMAIN sessions :
        /\ MapHas(sessionTimers, sid)
        /\ {t \in armed : t.sid = sid} = {sessionTimers[sid]}

\* a live session that was touched again after its registration: two requests
\* are in flight on it, later than its registration
C3_Witness ==
    \E sid \in DOMAIN sessions :
        /\ MapHas(sessionTimers, sid)
        /\ \E r1, r2 \in OnTransport(sessions[sid]) : r1 # r2
        /\ sessionTimers[sid].deadline >= TTL_MS + TickMs

C6_NoExpiryBeforeTTL ==
    /\ [](\A t \in armed :
            /\ MapHas(lastTouch, t.sid)
            /\ t.deadline = lastTouch[t.sid] + TTL_MS)
    /\ [][\A sid \in Sids : TimerFires(sid) => IdleForTTL(sid)]_vars

\* an idle timer has fired for a session that was touched after time 0
C6_Witness ==
    \E sid \in Sids : logged = Expired(sid) /\ now >= TTL_MS + TickMs

\* C7: the release steps, run once or twice for any id (created or not) and
\* whether or not close throws, let nothing escape, leave no entry for the
\* id in either map, and leave the entries of every other id as they were.
ReleasedFrom(st0, st1, sid) ==
    /\ ~st1.uncaught
    /\ ~MapHas(st1.sessions, sid) /\ ~MapHas(st1.timers, sid)
    /\ \A k \in (DOMAIN st0.sessions \cup DOMAIN st1.sessions) \ {sid} :
           MapHas(st0.sessions, k) /\ MapHas(st1.sessions, k)
           /\ st1.sessions[k] = st0.sessions[k]
    /\ \A k \in (DOMAIN st0.timers \cup DOMAIN st1.timers) \ {sid} :
           MapHas(st0.timers, k) /\ MapHas(st1.timers, k)
           /\ st1.timers[k] = st0.timers[k]
    /\ \A t \in st0.armed \cup st1.armed : t.sid # sid => t \in st0.armed \cap st1.armed

C7_ReleaseIdempotent ==
    \A sid \in Sids \cup {Bogus}, tr \in Transports \cup {NoTransport},
       throws \in BOOLEAN :
        LET t1 == TimerCallback(sid, tr, throws, SessionState)
            t2 == TimerCallback(sid, tr, throws, t1)
            c1 == SessionCloseHandler(sid, tr, throws, SessionState)
            c2 == SessionCloseHandler(sid, tr, throws, c1)
            tc == SessionCloseHandler(sid, tr, throws, t1)
            ct == TimerCallback(sid, tr, throws, c1)
        IN  /\ ReleasedFrom(SessionState, t1, sid)
            /\ ReleasedFrom(SessionState, c1, sid)
            /\ \A s2 \in {t2, tc} :
                   s2.sessions = t1.sessions /\ s2.timers = t1.timers /\ ~s2.uncaught
            /\ \A s2 \in {c2, ct} :
                   s2.sessions = c1.sessions /\ s2.timers = c1.timers /\ ~s2.uncaught

\* the release steps have run twice for one session (its transport was closed
\* twice) while another session is live
C7_Witness ==
    \E t \in Transports :
        /\ transportSid[t] \in released
        /\ closeCalls[t] >= 2
        /\ ~MapHas(sessions, transportSid[t])
        /\ DOMAIN sessions # {}

(* ==================== properties of the /mcp responses ================= *)
\* this step answers or admits the POST of header hdr and payload kind isInit
\* (at its arrival, or once initMcpServer has resolved for it)
PostAnswered(hdr, isInit) ==
    \/ mcpInitPromise = "resolved" /\ PostArrive(hdr, isInit)
    \/ \E r \in InFlight : r.hdr = hdr /\ r.isInit = isInit /\ PostDispatch(r)

Refusals == {Reply(400, "jsonrpc -32000"), Reply(400, "Invalid or missing session ID")}

\* no transport is constructed, no session registered, no request admitted
NothingCreated ==
    /\ UNCHANGED <<sessions, sessionTimers, armed, nTransports, transportSid>>
    /\ BagCardinality(inflight') <= BagCardinality(inflight)
    /\ \A r \in BagToSet(inflight') : r.pc # "awaitInit" => r \in InFlight

\* C8: a key-authorized POST with no session header and a payload that is not
\* an initialize message gets the 400 JSON-RPC error, never a 500, and the
\* session map and the timer map are unchanged.
C8_PostWithoutSessionOrInitIs400 ==
    [][/\ PostAnswered(NoHeader, FALSE) =>
              response' = Reply(400, "jsonrpc -32000") /\ NothingCreated
       /\ PostArrive(NoHeader, FALSE) =>
              response' # Reply(500, "mcp error")
              /\ UNCHANGED <<sessions, sessionTimers, armed>>]_vars

\* the 400 JSON-RPC error was sent while a session is live
C8_Witness ==
    response = Reply(400, "jsonrpc -32000") /\ DOMAIN sessions # {}

\* C9 as claimed: a key-authorized POST, GET or DELETE whose header names an id
\* that is not in the session map is refused with a 400, whatever its payload.
C9_UnknownSessionIdIs400 ==
    [][\A hdr \in HeaderIds \ {NoHeader} :
          Lookup(hdr) = NoTransport =>
              /\ \A isInit \in BOOLEAN :
                     PostAnswered(hdr, isInit) =>
                         response' \in Refusals /\ NothingCreated
              /\ \A m \in {"GET", "DELETE"} :
                     SessArrive(m, hdr) =>
                         response' \in Refusals /\ NothingCreated]_vars

\* C9, amended: a key-authorized GET or DELETE, or POST whose payload is not
\* an initialize message, whose header names an id that is not in the session
\* map is refused with a 400 and given no session; a POST whose payload is an
\* initialize message is not refused for its header: it starts a new session.
C9_UnknownSessionIdIs400UnlessInitialize ==
    [][\A hdr \in HeaderIds \ {NoHeader} :
          Lookup(hdr) = NoTransport =>
              /\ PostAnswered(hdr, FALSE) =>
                     response' = Reply(400, "jsonrpc -32000") /\ NothingCreated
              /\ \A m \in {"GET", "DELETE"} :
                     SessArrive(m, hdr) =>
                         /\ response' = Reply(400, "Invalid or missing session ID")
                         /\ NothingCreated
              /\ PostAnswered(hdr, TRUE) =>
                     /\ response' \notin Refusals
                     /\ \/ response' = Reply(500, "mcp error") /\ NothingCreated
                        \/ /\ nTransports' = nTransports + 1
                           /\ \E r \in BagToSet(inflight') :
                                  r.tr = nTransports' /\ r.pc = "handling"]_vars

\* a GET or DELETE was refused with the 400 when every id issued so far had
\* been released
C9_Witness ==
    /\ response = Reply(400, "Invalid or missing session ID")
    /\ released # {}
    /\ DOMAIN sessions = {}

(* ========================= properties of requireKey ==================== *)
\* the key the check compares: the first of q, x, bearer that is not empty
FirstPresent(q, x, auth) ==
    IF Truthy(q) THEN q ELSE IF Truthy(x) THEN x ELSE Bearer(auth)

KeyChecked ==
    keyRes \in {"next", "401"} /\ Truthy(API_KEY) /\ keyReq.method # "OPTIONS"

\* C10 as claimed: with a key configured, a non-OPTIONS request is rejected
\* with 401 if and only if none of its three key sources matches the key.
C10_RejectedIffNoSourceMatches ==
    KeyChecked =>
        (keyRes = "401" <=>
            ~ \/ keyReq.q = API_KEY
              \/ keyReq.x = API_KEY
              \/ Bearer(keyReq.auth) = API_KEY)

\* C10, amended: with a key configured, a non-OPTIONS request is rejected with
\* 401 'unauthorized' if and only if the first non-empty of its key sources,
\* in the order query parameter, X-API-Key, Bearer value, is not the key.
C10_RejectedIffFirstPresentSourceDiffers ==
    KeyChecked =>
        /\ keyRes = "401" <=> FirstPresent(keyReq.q, keyReq.x, keyReq.auth) # API_KEY
        /\ keyRes = "401" <=> response = Reply(401, "unauthorized")

\* a request rejected although its X-API-Key header is the key: its query
\* parameter is another value
C10_Witness ==
    /\ KeyChecked
    /\ keyRes = "401"
    /\ keyReq.q = W /\ keyReq.x = K

\* C11 as claimed: with no key configured the check is disabled, so every
\* request passes it, whatever key values it carries or omits.
C11_NoKeyDisablesCheck ==
    keyRes \in {"next", "401"} /\ ~Truthy(API_KEY) => keyRes = "next"

\* C11, amended: with no key configured (unset or empty) no key value passes
\* the check: every non-OPTIONS request is rejected with 401 'unauthorized',
\* whatever key values it carries or omits, and only OPTIONS passes.
C11_NoKeyRejectsAll ==
    keyRes \in {"next", "401"} /\ ~Truthy(API_KEY) =>
        /\ keyRes = "next" <=> keyReq.method = "OPTIONS"
        /\ keyRes = "401" <=> response = Reply(401, "unauthorized")

\* with no key configured, a request that carries no key at all was rejected
C11_Witness ==
    /\ API_KEY = Null
    /\ keyReq.method = "GET"
    /\ keyReq.q = Null /\ keyReq.x = Null /\ keyReq.auth = Null
    /\ keyRes = "401"

(* ============== properties of the authorization state, tools =========== *)
\* this step is the handler of tool ending with an error of authHeader: no
\* tokens are held at its call, or getAccessToken gives no token
AuthHeaderFails(tool) ==
    \/ savedTokens = NoTokens /\ \E r \in InFlight : ToolCall(r, tool)
    \/ toolCall # None /\ toolCall.tool = tool /\ ToolToken("noToken")

\* the authorization error messages
AuthErrors == {NotAuthorized, NoAccessToken}

C14_TokensAreLatestExchange ==
    /\ [](savedTokens = (IF issued = 0 THEN NoTokens ELSE issued))
    /\ [][savedTokens' # savedTokens => ExchangeResolves]_vars
    /\ [][CallbackArrive(FALSE) \/ ExchangeRejects =>
             /\ UNCHANGED <<savedTokens, issued>>
             /\ response' \in {Reply(400, "missing code"), Reply(500, "oauth error")}]_vars
    /\ [][savedTokens # NoTokens => savedTokens' # NoTokens]_vars
    /\ [][TasksArrive =>
             (response' = Reply(401, AuthorizeFirst) <=> savedTokens = NoTokens)]_vars
    /\ [][response' = Reply(401, AuthorizeFirst) =>
             savedTokens = NoTokens /\ TasksArrive]_vars

\* after two successful exchanges a third one has failed: the tokens held are
\* those of the second
C14_Witness ==
    /\ issued = 2
    /\ savedTokens = 2
    /\ response = Reply(500, "oauth error")

(* ======================== properties of search ========================= *)
\* the title of t contains query, whatever the case of the letters
TitleContains(t, query) ==
    LET title == IF t.title = Null THEN Empty ELSE t.title
    IN  \E i \in 0..(Len(title) - Len(query)) :
            \A j \in 1..Len(query) : LowerChar(title[i + j]) = LowerChar(query[j])

\* the tasks of list lid that are kept, in list order, each with its list id
KeptOf(account, lid, show, query) ==
    LET items == ItemsOr(FetchTasks(account, lid, show))
        kept == SelectSeq(items, LAMBDA t : query = Null \/ TitleContains(t, query))
    IN  [i \in 1..Len(kept) |-> [listId |-> lid, task |-> kept[i]]]

\* the kept tasks of the lists of ids lids, list before list
RECURSIVE KeptAcross(_, _, _, _)
KeptAcross(account, lids, show, query) ==
    IF lids = <<>> THEN <<>>
    ELSE KeptOf(account, Head(lids), show, query)
             \o KeptAcross(account, Tail(lids), show, query)

AllListIds(account) == [i \in 1..Len(account) |-> account[i].id]

\* the first 25 (or fewer) of the kept tasks of the lists of ids lids
FirstMatches(req, lids) ==
    LET show == req.showCompleted # "false"
        all == KeptAcross(req.account, lids, show, req.query)
    IN  [i \in 1..(IF Len(all) < 25 THEN Len(all) ELSE 25) |-> all[i]]

\* C15 as claimed: the result is the first 25 (or fewer) of the tasks whose
\* title contains the query (all tasks when it is omitted), visited list
\* before list and in list order, over the given list, or over all lists of
\* the account when listId is omitted.
C15_FirstMatchesOfGivenListOrAll ==
    searchRes # None =>
        searchRes.hits = FirstMatches(searchReq,
                                      IF searchReq.listId = Null
                                      THEN AllListIds(searchReq.account)
                                      ELSE <<searchReq.listId>>)

\* C15, amended: as claimed, over the given list when listId is a non-empty
\* string, and over all lists of the account when listId is omitted or is
\* the empty string; the result is never longer than 25 and keeps the order
\* of the lists and of the tasks within them.
C15_FirstMatchesOfNonEmptyListOrAll ==
    searchRes # None =>
        /\ searchRes.hits = FirstMatches(searchReq,
                                         IF searchReq.listId \in {Null, Empty}
                                         THEN AllListIds(searchReq.account)
                                         ELSE <<searchReq.listId>>)
        /\ Len(searchRes.hits) <= 25
        /\ \A i, j \in 1..Len(searchRes.hits) :
               i < j /\ searchRes.hits[i].listId = searchRes.hits[j].listId =>
                   searchRes.hits[i].task.id < searchRes.hits[j].task.id

\* a search over all lists, with a query, whose matches were cut at 25 in the
\* second list
C15_Witness ==
    /\ searchRes # None
    /\ searchReq.listId = Null
    /\ Truthy(searchReq.query)
    /\ Len(searchRes.hits) = 25
    /\ searchRes.hits[1].listId # searchRes.hits[25].listId
    /\ Len(SearchUncapped(searchReq.query, searchReq.listId,
                          searchReq.showCompleted, searchReq.account)) > 25

(* ================== properties of the key check on /mcp ================ *)
\* what the session and tool logic of /mcp reads and writes
McpState ==
    <<mcpInitPromise, initRuns, sessions, sessionTimers, armed, transportSid,
      closeCalls, nTransports, nextSid, inflight, released>>

\* no request of /mcp has reached a handler
NothingHandled ==
    /\ mcpInitPromise = "unset" /\ initRuns = 0
    /\ sessions = EmptyMap /\ sessionTimers = EmptyMap /\ armed = {}
    /\ nTransports = 0 /\ inflight = EmptyBag

\* C12: a non-OPTIONS request to /mcp that fails the key check gets 401 and
\* leaves the session map, the timer map and every transport unchanged; while
\* no key can pass, no request ever reaches the session logic; an OPTIONS
\* request is never answered 401, whatever the key.
C12_KeyCheckBeforeSessionLogic ==
    /\ [][\A m \in {"GET", "POST", "DELETE"} :
             Unauthorized(m) =>
                 response' = Reply(401, "unauthorized") /\ UNCHANGED McpState]_vars
    /\ [][response' = Reply(401, "unauthorized") => UNCHANGED McpState]_vars
    /\ []((\A m \in {"GET", "POST", "DELETE"} : KeyAnswers[API_KEY, m] = {"401"})
              => NothingHandled)
    /\ [](\A k \in ApiKeys : KeyAnswers[k, "OPTIONS"] = {"next"})
    /\ [][Options => response' = Reply(204, "") /\ UNCHANGED McpState]_vars

\* a request was rejected with 401 while a session was live and a request on
\* it in flight
C12_Witness ==
    /\ response = Reply(401, "unauthorized")
    /\ \E sid \in DOMAIN sessions : OnTransport(sessions[sid]) # {}

(* ===================== properties of the idle deadline ================= *)
\* this step is the completion of request r: its handleRequest has returned
RequestCompletes(r) ==
    IF r.method = "POST" THEN PostHandled(r) ELSE SessHandled(r)

\* the requests in flight on the live session sid that are still being handled
HandlingOn(sid) ==
    {r \in InFlight : r.pc = "handling" /\ SessionIdOf(r.tr) = sid}

SessionUnchanged(b) ==
    /\ MapHas(sessions, b) <=> MapHas(sessions', b)
    /\ MapHas(sessions, b) => sessions'[b] = sessions[b]
    /\ MapHas(sessionTimers, b) <=> MapHas(sessionTimers', b)
    /\ MapHas(sessionTimers, b) => sessionTimers'[b] = sessionTimers[b]
    /\ {t \in armed : t.sid = b} = {t \in armed' : t.sid = b}
    /\ \A t \in Transports :
           transportSid[t] = b =>
               transportSid'[t] = b /\ closeCalls'[t] = closeCalls[t]

\* this step is an operation on session id a: its registration, a request
\* that names it, the end of a request on it, a connection close, its timer
OperationOn(a) ==
    \/ TimerFires(a)
    \/ \E m \in {"POST", "GET", "DELETE"} : ConnectionCloses(m, a)
    \/ \E r \in HandlingOn(a) :
           PostHandled(r) \/ PostThrows(r) \/ SessHandled(r) \/ SessThrows(r)
    \/ \E m \in {"GET", "DELETE"} : SessArrive(m, a)
    \/ \E isInit \in BOOLEAN : PostAnswered(a, isInit)
    \/ nextSid = a /\ \E r \in InFlight : PostInitialized(r)

\* C18: an operation on session id a (a touch, an expiry, a request, a
\* release) leaves the map entries, the pending timer and the transport of
\* every other session id b unchanged, and no step changes two sessions.
C18_SessionsIndependent ==
    /\ [][\A a \in Sids :
             (\E b \in Sids \ {a} : ~SessionUnchanged(b)) => ~OperationOn(a)]_vars
    /\ [][\A a, b \in Sids : a # b => SessionUnchanged(a) \/ SessionUnchanged(b)]_vars

\* one session has just been released while another one, with a request in
\* flight on it, is live
C18_Witness ==
    \E a, b \in Sids :
        /\ a # b
        /\ logged \in {Closed(a), Expired(a)}
        /\ ~MapHas(sessions, a)
        /\ MapHas(sessions, b) /\ MapHas(sessionTimers, b)
        /\ OnTransport(sessions[b]) # {}

(* ============ properties of a POST without a completed handshake ======= *)
\* the POSTs being handled on a transport that has no session id: the
\* initialization callback has not run for it
Uninitialized ==
    {r \in InFlight :
        r.method = "POST" /\ r.pc = "handling" /\ SessionIdOf(r.tr) = NoSid}

\* C19: a session-initiation POST whose transport never gets a session id
\* (handleRequest throws, or returns, before the initialization callback)
\* leaves the session map and the timer map unchanged at every step of it:
\* the construction of the transport, the touch after the request, the error
\* path, the close of its connection; no entry or timer exists for a
\* missing id.
C19_NoHandshakeNoEntry ==
    /\ [][\A hdr \in {NoHeader, Bogus} \cup Sids :
             Lookup(hdr) = NoTransport /\ PostAnswered(hdr, TRUE) =>
                 UNCHANGED <<sessions, sessionTimers, armed>>]_vars
    /\ [][\A r \in Uninitialized :
             PostHandled(r) \/ PostThrows(r) \/ PostClose(r) =>
                 UNCHANGED <<sessions, sessionTimers, armed>> /\ logged'.kind
                     \in {"none", "mcp error (POST /mcp)"}]_vars
    /\ [](/\ ~MapHas(sessions, NoSid) /\ ~MapHas(sessionTimers, NoSid)
          /\ \A t \in armed : t.sid # NoSid)

\* the handling of a POST on a new transport has returned before the
\* initialization callback ran, and both maps are empty
C19_Witness ==
    /\ \E r \in InFlight :
           r.method = "POST" /\ r.pc = "handled" /\ SessionIdOf(r.tr) = NoSid
    /\ sessions = EmptyMap /\ sessionTimers = EmptyMap /\ armed = {}

(* ===================== properties of initMcpServer ===================== *)
\* the POSTs that wait for the promise of initMcpServer
AwaitingInit == {r \in InFlight : r.pc = "awaitInit"}

\* C20: the body of initMcpServer (the imports and the registration of the
\* three tools) is started at most once, by the first POST; the promise it
\* sets is never replaced; the POSTs that arrive while it is pending wait for
\* that one promise, and no POST goes on before it has resolved.
C20_InitializedAtMostOnce ==
    /\ [](initRuns <= 1)
    /\ [](mcpInitPromise = "unset" <=> initRuns = 0)
    /\ [][initRuns' # initRuns => mcpInitPromise = "unset" /\ initRuns' = 1]_vars
    /\ [][mcpInitPromise # "unset" =>
             mcpInitPromise' \in {mcpInitPromise, "resolved"}]_vars
    /\ [](AwaitingInit # {} => initRuns = 1)
    /\ [](InFlight \ AwaitingInit # {} \/ nTransports > 0 =>
             mcpInitPromise = "resolved" /\ initRuns = 1)

\* two POSTs wait for the one pending initialization
C20_Witness ==
    /\ mcpInitPromise = "pending"
    /\ initRuns = 1
    /\ InFlight = AwaitingInit
    /\ BagCardinality(inflight) = 2

(* ======================= properties of idle expiry ===================== *)
\* sid is in the session map and the deadline of its latest touch lies within
\* the clock's range
IdleWithinRange(sid) ==
    /\ MapHas(sessions, sid)
    /\ MapHas(lastTouch, sid)
    /\ lastTouch[sid] + TTL_MS <= MaxTicks * TickMs

\* C17: with timers that fire once they are due, a session in the map is
\* eventually removed from the map unless it is touched again: no session
\* stays in the map with a deadline that has passed; and the firing of its
\* timer closes the transport and removes both entries.
C17_IdleSessionEventuallyRemoved ==
    /\ \A sid \in Sids :
           IdleWithinRange(sid) ~> (~MapHas(sessions, sid) \/ ~IdleWithinRange(sid))
    /\ [][\A tm \in armed :
             (\E throws \in BOOLEAN : Expire(tm, throws)) =>
                 /\ ~MapHas(sessions', tm.sid) /\ ~MapHas(sessionTimers', tm.sid)
                 /\ tm \notin armed'
                 /\ closeCalls'[tm.tr] >= 1
                 /\ logged' = Expired(tm.sid)]_vars

\* a session was removed by its idle timer when no request was in flight and
\* no other timer was pending
C17_Witness ==
    \E sid \in released :
        /\ logged = Expired(sid)
        /\ ~MapHas(sessions, sid) /\ ~MapHas(sessionTimers, sid)
        /\ inflight = EmptyBag
        /\ armed = {}

====
